---- MODULE Spec2Model ----
(***************************************************************************)
(* Model of cubecl-runtime's LocalTuner (tune/local.rs): the registry of   *)
(* per-identity Tuners behind `state: spin::RwLock<Option<HashMap>>`, the  *)
(* registry of TunableSets behind `sets`, and the operations init, clear   *)
(* and execute, run by concurrent threads with re-entrant calls made from  *)
(* inside candidate variants.                                              *)
(***************************************************************************)
EXTENDS Integers, Sequences, FiniteSets, TLC

\* ---------------------------------------------------------------- bounds
NumThreads == 2
NumIds == 2
NumKeys == 2
NumVariants == 2
NumTypes == 1
MaxDepth == 2
MaxClear == 1
MaxCtor == 2
MaxCalls == 3

Threads == 1..NumThreads
Ids == 1..NumIds
Keys == 1..NumKeys
Variants == 0..(NumVariants - 1)
Types == 1..NumTypes

\* The checksum of a persisted record written by a build with other variants.
StaleChecksum == 2

\* Mutant: the checksum does not depend on the variant list.
ChecksumIgnoresVariants == StaleChecksum

\* operations.compute_checksum() of the TunableSet of this build.
CurrentChecksum == 1

VARIABLES
    state,        \* self.state: id -> Tuner; the empty function is None
    readers,      \* read guards on self.state held by each thread
    sets,         \* self.sets: type id -> registered instance (0: absent)
    constructed,  \* how many times init_set() ran, per type id
    persisted,    \* persistent cache: id -> key -> [idx, cs] (cs = 0: none)
    jobs,         \* measurements enqueued on a non-blocking platform
    stack,        \* per thread: the frames of its nested calls
    blocking,     \* the platform can block on benchmarks
    nclear,       \* number of clear calls so far
    ncalls,       \* number of execute calls so far
    writer,       \* the thread holding the write guard on self.state (0: none)
    len,          \* operations.len(): the number of variants of the Tunable Set
    lastHits      \* history: the winners <<id, key, index>> the last clear discarded

vars == <<state, readers, sets, constructed, persisted, jobs, stack, blocking, nclear, ncalls,
          writer, len, lastHits>>

\* ------------------------------------------------------- TuneCacheResult
Hit(i) == [tag |-> "Hit", idx |-> i]
Miss == [tag |-> "Miss", idx |-> 0]
Pending == [tag |-> "Pending", idx |-> 0]
Unchecked == [tag |-> "Unchecked", idx |-> 0]

NoRecord == [idx |-> 0, cs |-> 0]

\* ------------------------------------------------------------------ Tuner
\* Tuner::new: loads the persistent cache of this identity; loaded entries
\* are Unchecked until their checksum is validated.
NewTuner(id) ==
    [cache |-> [k \in Keys |-> IF persisted[id][k].cs # 0 THEN Unchecked ELSE Miss],
     autotuning |-> {},
     channel |-> <<>>]

\* Tuner::fastest
Fastest(tuner, key) == tuner.cache[key]

\* Tuner::validate_checksum
ValidateChecksum(tuner, id, key, checksum) ==
    [tuner EXCEPT !.cache[key] =
        IF persisted[id][key].cs = checksum
        THEN Hit(persisted[id][key].idx)
        ELSE Miss]

DoneMsg(key, i) == [kind |-> "Done", key |-> key, idx |-> i]
PendingMsg(key) == [kind |-> "Pending", key |-> key, idx |-> 0]

LastMsg(ch, key) ==
    LET S == {n \in 1..Len(ch) : ch[n].key = key}
    IN IF S = {} THEN 0 ELSE CHOOSE n \in S : \A m \in S : m <= n

LastDone(ch, key) ==
    LET S == {n \in 1..Len(ch) : ch[n].key = key /\ ch[n].kind = "Done"}
    IN IF S = {} THEN 0 ELSE CHOOSE n \in S : \A m \in S : m <= n

\* Tuner::handle_results: drains the channel in order into the cache.
HandleResults(tuner) ==
    [tuner EXCEPT
        !.cache = [k \in Keys |->
            LET n == LastMsg(tuner.channel, k)
            IN IF n = 0 THEN tuner.cache[k]
               ELSE IF tuner.channel[n].kind = "Done" THEN Hit(tuner.channel[n].idx)
               ELSE Pending],
        !.channel = <<>>]

\* The persistent cache after handle_results: one record per completed autotune.
PersistResults(tuner, id) ==
    [persisted EXCEPT ![id] = [k \in Keys |->
        LET n == LastDone(tuner.channel, k)
        IN IF n = 0 THEN persisted[id][k]
           ELSE [idx |-> tuner.channel[n].idx, cs |-> CurrentChecksum]]]

\* ----------------------------------------------------------------- frames
Frame(op, id, key, pc) ==
    [op |-> op, id |-> id, key |-> key, pc |-> pc,
     fastest |-> Miss, run_autotune |-> FALSE, index |-> 0,
     requery |-> "None", ret |-> 0, ranCtor |-> FALSE,
     seenTag |-> "None", seenIdx |-> 0, wasHit |-> -1]

Top(t) == stack[t][Len(stack[t])]
Busy(t) == stack[t] # <<>>
Push(t, f) == [stack EXCEPT ![t] = Append(@, f)]
SetTop(t, f) == [stack EXCEPT ![t] = [@ EXCEPT ![Len(@)] = f]]
Pop(t) == [stack EXCEPT ![t] = SubSeq(@, 1, Len(@) - 1)]

\* ------------------------------------------------------ spin::RwLock state
\* write() succeeds only when no guard is out, read() when no write guard is.
\* Every exclusive section of the code runs no user code on self.state, so it
\* is one atomic step.
NoWriter == 0
CanRead == writer = NoWriter
CanWrite == writer = NoWriter /\ \A t \in Threads : readers[t] = 0

\* Mutant: the write guard outlives its block.
GuardKept(t) == t

\* The write guard is a local of its block (lines 142-167, 212-247, 87-90) and
\* is dropped where the block ends: the holder once the block is left.
GuardDropped(t) == NoWriter

\* A panic unwinds the whole thread: every guard it holds is dropped.
Panicked(t, f, what) == [stack EXCEPT ![t] = <<[f EXCEPT !.pc = what]>>]
Dead(t) == Busy(t) /\ stack[t][1].pc \in {"panic_init", "panic_started", "panic_unchecked"}

\* A variant (or, when benchmarks block, a candidate under measurement) is
\* running on top of t's stack: user code that may call execute again.
InUserCode(t) ==
    \/ Top(t).pc \in {"fast_run", "hit_run", "run"}
    \/ Top(t).pc = "autotune" /\ blocking

MayCall(t) ==
    \/ ~Busy(t)
    \/ Busy(t) /\ ~Dead(t) /\ Len(stack[t]) < MaxDepth /\ InUserCode(t)

\* History kept in a frame for the properties, not read by the code: what the
\* Tuner held for (id, key) when the call was issued (a committed winner "Hit",
\* or a completed measurement waiting in the channel "Done"), and, once the
\* call validated a persisted record, the outcome ("Match", "Stale").
SeenAtCall(id, key) ==
    IF id \in DOMAIN state /\ state[id].cache[key].tag = "Hit"
    THEN [tag |-> "Hit", idx |-> state[id].cache[key].idx]
    ELSE IF id \in DOMAIN state /\ LastDone(state[id].channel, key) # 0
            /\ LastMsg(state[id].channel, key) = LastDone(state[id].channel, key)
    THEN [tag |-> "Done", idx |-> state[id].channel[LastDone(state[id].channel, key)].idx]
    ELSE [tag |-> "None", idx |-> 0]

\* ------------------------------------------------------------- execute
\* Mutant: there is no fast path, every call goes to the exclusive section.
FastPathNever(id, key) == FALSE

\* The read-only lookup at the head of execute.
FastPathHit(id, key) ==
    /\ id \in DOMAIN state
    /\ Fastest(state[id], key).tag = "Hit"

\* Mutant: the fast path runs the default variant instead of the cached one.
FastPathDefaultIndex(id, key) == 0

FastPathIndex(id, key) == Fastest(state[id], key).idx

\* execute, lines 121-138: the key, then the fast path. On Hit the variant runs
\* inside the `if let`, whose scrutinee keeps the read guard alive.
Call(t, id, key) ==
    /\ MayCall(t)
    /\ CanRead
    /\ ncalls < MaxCalls
    /\ ncalls' = ncalls + 1
    /\ LET f == [Frame("execute", id, key, "create") EXCEPT
                    !.seenTag = SeenAtCall(id, key).tag,
                    !.seenIdx = SeenAtCall(id, key).idx]
       IN IF FastPathHit(id, key)
          THEN /\ stack' = Push(t, [f EXCEPT !.pc = "fast_run",
                                             !.index = FastPathIndex(id, key)])
               /\ readers' = [readers EXCEPT ![t] = @ + 1]
          ELSE /\ stack' = Push(t, f)
               /\ readers' = readers
    /\ UNCHANGED <<state, sets, constructed, persisted, jobs, blocking, nclear, len, writer, lastHits>>

\* map.entry(id).or_insert_with(Tuner::new)
GetOrInsert(id) == IF id \in DOMAIN state THEN state[id] ELSE NewTuner(id)

PutTuner(id, tuner) ==
    [i \in DOMAIN state \cup {id} |-> IF i = id THEN tuner ELSE state[i]]

\* Mutant: the checksum of an Unchecked entry is never validated.
NeverValidates(fastest) == FALSE

\* line 155
NeedsValidation(fastest) == fastest.tag = "Unchecked"

\* Mutant: the in-flight set is not consulted.
ShouldRunAutotuneNoMarker(fastest, tuner, key) == fastest.tag = "Miss"

\* Mutant: the in-flight markers of every identity are consulted.
ShouldRunAutotuneAnyIdentity(fastest, tuner, key) ==
    /\ fastest.tag = "Miss"
    /\ key \notin tuner.autotuning
    /\ \A i \in DOMAIN state : key \notin state[i].autotuning

\* line 162
ShouldRunAutotune(fastest, tuner, key) ==
    fastest.tag = "Miss" /\ key \notin tuner.autotuning

\* The match on the captured state, lines 169-210: where the call goes next.
AfterCreate(fastest, run) ==
    CASE fastest.tag = "Hit" -> "hit_run"
      [] fastest.tag = "Miss" /\ run -> "start"
      [] fastest.tag = "Miss" /\ ~run -> "harvest"
      [] fastest.tag = "Pending" -> "harvest"
      [] OTHER -> "panic_unchecked"

\* History: the winner of (id, key) that the last clear discarded (-1: none).
LastHit(id, key) ==
    IF \E h \in lastHits : h[1] = id /\ h[2] = key
    THEN (CHOOSE h \in lastHits : h[1] = id /\ h[2] = key)[3]
    ELSE -1

\* execute, lines 142-167 (one exclusive section) and the match that follows.
Create(t) ==
    /\ Busy(t) /\ Top(t).pc = "create"
    /\ CanWrite
    /\ LET f == Top(t)
           tuner0 == GetOrInsert(f.id)
           unchecked == Fastest(tuner0, f.key).tag = "Unchecked"
           tuner1 == IF NeedsValidation(Fastest(tuner0, f.key))
                     THEN ValidateChecksum(tuner0, f.id, f.key, CurrentChecksum)
                     ELSE tuner0
           fastest == Fastest(tuner1, f.key)
           run == ShouldRunAutotune(fastest, tuner1, f.key)
           tuner2 == IF run THEN [tuner1 EXCEPT !.autotuning = @ \cup {f.key}] ELSE tuner1
           next == AfterCreate(fastest, run)
           g == [f EXCEPT !.fastest = fastest, !.run_autotune = run,
                          !.index = IF fastest.tag = "Hit" THEN fastest.idx ELSE 0,
                          !.seenTag =
                              IF ~unchecked THEN f.seenTag
                              ELSE IF persisted[f.id][f.key].cs = CurrentChecksum
                                   THEN "Match" ELSE "Stale",
                          !.seenIdx =
                              IF ~unchecked THEN f.seenIdx ELSE persisted[f.id][f.key].idx,
                          !.wasHit = IF Fastest(tuner0, f.key).tag \in {"Unchecked", "Miss"}
                                     THEN LastHit(f.id, f.key) ELSE -1,
                          !.pc = next]
       IN /\ state' = PutTuner(f.id, tuner2)
          /\ writer' = GuardDropped(t)
          /\ IF next = "panic_unchecked"
             THEN /\ stack' = Panicked(t, g, next)
                  /\ readers' = [readers EXCEPT ![t] = 0]
             ELSE /\ stack' = SetTop(t, g)
                  /\ readers' = readers
    /\ UNCHANGED <<sets, constructed, persisted, jobs, blocking, nclear, ncalls, len, lastHits>>

\* execute, lines 194-199: the read guard `state` is taken and the Tuner looked
\* up; the guard lives until the end of the block, across execute_autotune.
StartAutotune(t) ==
    /\ Busy(t) /\ Top(t).pc = "start"
    /\ CanRead
    /\ LET f == Top(t)
       IN IF f.id \in DOMAIN state
          THEN /\ stack' = SetTop(t, [f EXCEPT !.pc = "autotune"])
               /\ readers' = [readers EXCEPT ![t] = @ + 1]
          ELSE /\ stack' = Panicked(t, f, "panic_init")
               /\ readers' = [readers EXCEPT ![t] = 0]
    /\ UNCHANGED <<state, sets, constructed, persisted, jobs, blocking, nclear, ncalls, len, writer, lastHits>>

Send(id, msg) == [state EXCEPT ![id].channel = Append(@, msg)]

\* The candidates a measurement chooses its winner from: operations.len() of them.
Candidates == 0..(len - 1)

\* Tuner::execute_autotune returns: on a blocking platform every candidate was
\* measured and the winner is sent (with no candidate there is none to send);
\* otherwise the work is enqueued and the key is reported pending. The read
\* guard of line 194 is dropped after it.
FinishAutotune(t) ==
    /\ Busy(t) /\ Top(t).pc = "autotune"
    /\ LET f == Top(t)
       IN /\ IF blocking
             THEN /\ IF Candidates = {}
                     THEN state' = state
                     ELSE \E w \in Candidates : state' = Send(f.id, DoneMsg(f.key, w))
                  /\ jobs' = jobs
             ELSE /\ state' = Send(f.id, PendingMsg(f.key))
                  /\ jobs' = jobs \cup {[id |-> f.id, key |-> f.key, thread |-> t, live |-> TRUE]}
          /\ stack' = SetTop(t, [f EXCEPT !.pc = "harvest"])
          /\ readers' = [readers EXCEPT ![t] = @ - 1]
    /\ UNCHANGED <<sets, constructed, persisted, blocking, nclear, ncalls, len, writer, lastHits>>

\* An enqueued measurement completes. The platform is cooperative: the task
\* runs only once the thread that spawned it is back in its event loop.
Background(j) ==
    /\ j \in jobs
    /\ ~Busy(j.thread)
    /\ jobs' = jobs \ {j}
    /\ IF j.live /\ j.id \in DOMAIN state /\ Candidates # {}
       THEN \E w \in Candidates : state' = Send(j.id, DoneMsg(j.key, w))
       ELSE state' = state
    /\ UNCHANGED <<readers, sets, constructed, persisted, stack, blocking, nclear, ncalls, len, writer, lastHits>>

\* Mutant: the re-queried winner is ignored and the default variant runs.
RequeryDefaultOnly(fastest, run) ==
    CASE fastest.tag = "Hit" -> [pc |-> "run", index |-> 0]
      [] fastest.tag = "Pending" -> [pc |-> "run", index |-> 0]
      [] fastest.tag = "Miss" /\ run -> [pc |-> "panic_started", index |-> 0]
      [] fastest.tag = "Miss" /\ ~run -> [pc |-> "run", index |-> 0]
      [] OTHER -> [pc |-> "panic_unchecked", index |-> 0]

\* Mutant: Pending falls back to the last variant instead of the first.
RequeryLastVariant(fastest, run) ==
    CASE fastest.tag = "Hit" -> [pc |-> "run", index |-> fastest.idx]
      [] fastest.tag = "Pending" -> [pc |-> "run", index |-> NumVariants - 1]
      [] fastest.tag = "Miss" /\ run -> [pc |-> "panic_started", index |-> 0]
      [] fastest.tag = "Miss" /\ ~run -> [pc |-> "run", index |-> NumVariants - 1]
      [] OTHER -> [pc |-> "panic_unchecked", index |-> 0]

\* The match of lines 223-246 on the re-queried state.
Requery(fastest, run) ==
    CASE fastest.tag = "Hit" -> [pc |-> "run", index |-> fastest.idx]
      [] fastest.tag = "Pending" -> [pc |-> "run", index |-> 0]
      [] fastest.tag = "Miss" /\ run -> [pc |-> "panic_started", index |-> 0]
      [] fastest.tag = "Miss" /\ ~run -> [pc |-> "run", index |-> 0]
      [] OTHER -> [pc |-> "panic_unchecked", index |-> 0]

\* Tuner::handle_results as execute calls it at line 220.
Harvested(tuner) == HandleResults(tuner)

\* execute, lines 212-247: the second exclusive section.
Harvest(t) ==
    /\ Busy(t) /\ Top(t).pc = "harvest"
    /\ CanWrite
    /\ writer' = GuardDropped(t)
    /\ LET f == Top(t)
       IN IF f.id \notin DOMAIN state
          THEN /\ stack' = Panicked(t, f, "panic_init")
               /\ readers' = [readers EXCEPT ![t] = 0]
               /\ UNCHANGED <<state, persisted>>
          ELSE LET tuner == Harvested(state[f.id])
                   fastest == Fastest(tuner, f.key)
                   r == Requery(fastest, f.run_autotune)
                   g == [f EXCEPT !.pc = r.pc, !.index = r.index, !.requery = fastest.tag]
               IN /\ state' = [state EXCEPT ![f.id] = tuner]
                  /\ persisted' = IF tuner.channel = state[f.id].channel
                                  THEN persisted
                                  ELSE PersistResults(state[f.id], f.id)
                  /\ IF r.pc = "run"
                     THEN /\ stack' = SetTop(t, g)
                          /\ readers' = readers
                     ELSE /\ stack' = Panicked(t, g, r.pc)
                          /\ readers' = [readers EXCEPT ![t] = 0]
    /\ UNCHANGED <<sets, constructed, jobs, blocking, nclear, ncalls, len, lastHits>>

\* The dispatched variant returns and so does execute; the fast path drops its
\* read guard only here.
Return(t) ==
    /\ Busy(t) /\ Top(t).pc \in {"fast_run", "hit_run", "run"}
    /\ stack' = Pop(t)
    /\ readers' = [readers EXCEPT ![t] = IF Top(t).pc = "fast_run" THEN @ - 1 ELSE @]
    /\ UNCHANGED <<state, sets, constructed, persisted, jobs, blocking, nclear, ncalls, len, writer, lastHits>>

\* ---------------------------------------------------------------- clear
ClearedState == <<>>

\* History: the committed winners a clear discards.
DiscardedHits ==
    {<<q[1], q[2], state[q[1]].cache[q[2]].idx>> :
        q \in {r \in (DOMAIN state) \X Keys : state[r[1]].cache[r[2]].tag = "Hit"}}

\* Mutant: clear also empties the registry of Tunable Sets.
ClearEverything(t) ==
    /\ ~Busy(t)
    /\ nclear < MaxClear
    /\ CanWrite
    /\ state' = ClearedState
    /\ writer' = GuardDropped(t)
    /\ lastHits' = DiscardedHits
    /\ sets' = [ty \in Types |-> 0]
    /\ jobs' = {[j EXCEPT !.live = FALSE] : j \in jobs}
    /\ nclear' = nclear + 1
    /\ UNCHANGED <<readers, constructed, persisted, stack, blocking, ncalls, len>>

\* clear, lines 87-90. The measurements already enqueued lose their Tuner.
Clear(t) ==
    /\ ~Busy(t)
    /\ nclear < MaxClear
    /\ CanWrite
    /\ state' = ClearedState
    /\ writer' = GuardDropped(t)
    /\ lastHits' = DiscardedHits
    /\ jobs' = {[j EXCEPT !.live = FALSE] : j \in jobs}
    /\ nclear' = nclear + 1
    /\ UNCHANGED <<readers, sets, constructed, persisted, stack, blocking, ncalls, len>>

\* ----------------------------------------------------------------- init
Constructing(ty) ==
    Cardinality({t \in Threads : Busy(t) /\ Top(t).op = "init" /\ Top(t).id = ty
                                 /\ Top(t).pc = "init_write"})

\* init, lines 60-70: the lookup under the read guard of self.sets.
InitCall(t, ty) ==
    /\ ~Busy(t)
    /\ sets[ty] = 0 => constructed[ty] + Constructing(ty) < MaxCtor
    /\ LET f == [Frame("init", ty, 1, "init_write") EXCEPT
                    !.seenTag = IF constructed[ty] = 0 THEN "Fresh"
                                ELSE IF nclear = 0 THEN "Used" ELSE "UsedCleared"]
       IN stack' = Push(t, IF sets[ty] # 0
                           THEN [f EXCEPT !.pc = "init_ret", !.ret = sets[ty]]
                           ELSE f)
    /\ UNCHANGED <<state, readers, sets, constructed, persisted, jobs, blocking, nclear, ncalls, len, writer, lastHits>>

\* init, lines 72-83: the write guard, init_set() and the insert.
InitWrite(t) ==
    /\ Busy(t) /\ Top(t).pc = "init_write"
    /\ constructed' = [constructed EXCEPT ![Top(t).id] = @ + 1]
    /\ sets' = [sets EXCEPT ![Top(t).id] = constructed[Top(t).id] + 1]
    /\ stack' = SetTop(t, [Top(t) EXCEPT !.pc = "init_ret", !.ranCtor = TRUE,
                                         !.ret = constructed[Top(t).id] + 1])
    /\ UNCHANGED <<state, readers, persisted, jobs, blocking, nclear, ncalls, len, writer, lastHits>>

InitReturn(t) ==
    /\ Busy(t) /\ Top(t).pc = "init_ret"
    /\ stack' = Pop(t)
    /\ UNCHANGED <<state, readers, sets, constructed, persisted, jobs, blocking, nclear, ncalls, len, writer, lastHits>>

\* ------------------------------------------------------------------ spec
\* A fresh process: nothing registered, no Tuner; the persistent cache holds
\* nothing or one record left by an earlier run, of this build or of another.
Fresh ==
    /\ state = <<>>
    /\ readers = [t \in Threads |-> 0]
    /\ sets = [ty \in Types |-> 0]
    /\ constructed = [ty \in Types |-> 0]
    /\ \E r \in {NoRecord, [idx |-> NumVariants - 1, cs |-> CurrentChecksum],
                          [idx |-> NumVariants, cs |-> StaleChecksum]} :
          persisted = [i \in Ids |-> [k \in Keys |-> IF i = 1 /\ k = 1 THEN r ELSE NoRecord]]
    /\ jobs = {}
    /\ stack = [t \in Threads |-> <<>>]
    /\ blocking \in BOOLEAN
    /\ nclear = 0
    /\ ncalls = 0
    /\ writer = NoWriter
    /\ lastHits = {}

\* The callers pass a Tunable Set of NumVariants variants.
Init == Fresh /\ len = NumVariants

\* The callers pass a Tunable Set of NumVariants variants, or one with none
\* (for which no record of the current checksum can hold a winner).
InitAnySet ==
    /\ Fresh
    /\ len \in {0, NumVariants}
    /\ len = 0 => \A id \in Ids, key \in Keys : persisted[id][key].cs # CurrentChecksum

\* Concurrent execute and clear calls.
Next ==
    \/ \E t \in Threads, id \in Ids, key \in Keys : Call(t, id, key)
    \/ \E t \in Threads : Create(t)
    \/ \E t \in Threads : StartAutotune(t)
    \/ \E t \in Threads : FinishAutotune(t)
    \/ \E j \in jobs : Background(j)
    \/ \E t \in Threads : Harvest(t)
    \/ \E t \in Threads : Return(t)
    \/ \E t \in Threads : Clear(t)

Spec == Init /\ [][Next]_vars

\* init and clear called from every thread, while one thread calls execute.
Executor == CHOOSE t \in Threads : TRUE

NextSets ==
    \/ \E id \in Ids, key \in Keys : Call(Executor, id, key)
    \/ Create(Executor)
    \/ StartAutotune(Executor)
    \/ FinishAutotune(Executor)
    \/ \E j \in jobs : Background(j)
    \/ Harvest(Executor)
    \/ Return(Executor)
    \/ \E t \in Threads : Clear(t)
    \/ \E t \in Threads, ty \in Types : InitCall(t, ty)
    \/ \E t \in Threads : InitWrite(t)
    \/ \E t \in Threads : InitReturn(t)

SpecSets == Init /\ [][NextSets]_vars

SpecAnySet == InitAnySet /\ [][Next]_vars

\* ------------------------------------------------------------ properties
\* The frames of the calls in progress, as (thread, depth) positions.
Positions == {p \in Threads \X (1..MaxDepth) : p[2] <= Len(stack[p[1]])}
At(p) == stack[p[1]][p[2]]
Executing == {p \in Positions : At(p).op = "execute" /\ ~Dead(p[1])}
For(id, key) == {p \in Executing : At(p).id = id /\ At(p).key = key}

\* Benchmarking passes of (id, key) that started and have not completed: calls
\* inside execute_autotune, and measurements enqueued for the live Tuner.
Benchmarking(id, key) == {p \in For(id, key) : At(p).pc = "autotune"}
Enqueued(id, key) == {j \in jobs : j.id = id /\ j.key = key /\ j.live}
Responsible(id, key) == {p \in For(id, key) : At(p).run_autotune}

\* C1: as long as clear is not called, at most one benchmarking pass per
\* (identity, fingerprint) is active, at most one call ever became responsible
\* for it, that call left the in-flight marker, and a call that is not
\* responsible is never inside execute_autotune.
C1_OneBenchmark ==
    nclear = 0 =>
        \A id \in Ids, key \in Keys :
            /\ Cardinality(Benchmarking(id, key)) + Cardinality(Enqueued(id, key)) <= 1
            /\ Cardinality(Responsible(id, key)) <= 1
            /\ \A p \in Responsible(id, key) :
                  id \in DOMAIN state /\ key \in state[id].autotuning
            /\ Benchmarking(id, key) \subseteq Responsible(id, key)

\* Two concurrent calls observed Miss for one fingerprint: one benchmarks, the
\* other one saw the marker and went on to the second exclusive section.
C1_Witness ==
    /\ nclear = 0
    /\ \E id \in Ids, key \in Keys : \E p \in Benchmarking(id, key), q \in For(id, key) :
          /\ p[1] # q[1]
          /\ At(q).pc = "harvest"
          /\ At(q).fastest = Miss
          /\ ~At(q).run_autotune

\* C2 (dispatch): without clear, a call issued when its fingerprint is
\* Hit(index) runs variant index and is never responsible for benchmarking.
C2_Dispatch ==
    nclear = 0 =>
        \A p \in Executing :
            At(p).seenTag = "Hit" =>
                /\ At(p).pc \in {"fast_run", "hit_run", "run"}
                /\ At(p).index = At(p).seenIdx
                /\ ~At(p).run_autotune

\* C2 (same winner each time): without clear, a fingerprint that is Hit(index)
\* stays Hit(index) in every step.
C2_HitStable ==
    \A id \in Ids, key \in Keys :
        (/\ nclear = 0 /\ nclear' = 0
         /\ id \in DOMAIN state
         /\ state[id].cache[key].tag = "Hit")
        => (id \in DOMAIN state' /\ state'[id].cache[key] = state[id].cache[key])

\* C2: once a fingerprint is Hit(index), every later execute for it invokes
\* variant index, the winner never changes, and no benchmark is started again.
C2_Converged == [][C2_HitStable]_vars /\ []C2_Dispatch

\* A call issued after a completed autotune (the marker is there) chose a
\* winner other than the default.
C2_Witness ==
    /\ nclear = 0
    /\ \E p \in Executing :
          /\ At(p).seenTag = "Hit"
          /\ At(p).seenIdx = NumVariants - 1
          /\ At(p).pc = "fast_run"
          /\ At(p).key \in state[At(p).id].autotuning

\* The call on top of t's stack is at self.state.write() (line 143 or 213).
AtWrite(t) == Busy(t) /\ ~Dead(t) /\ Top(t).op = "execute" /\ Top(t).pc \in {"create", "harvest"}

\* C3: a re-entrant execute made from inside a candidate variant never waits
\* for the write lock while its own thread still holds a read guard.
C3_ReentrantCompletes ==
    \A t \in Threads : (Len(stack[t]) >= 2 /\ AtWrite(t)) => readers[t] = 0

\* C4: while a call is inside a blocking execute_autotune, no other thread's
\* call is held at an exclusive section by it.
C4_NoWaitOnBenchmark ==
    \A t \in Threads, u \in Threads :
        (/\ t # u
         /\ blocking
         /\ \E n \in 1..Len(stack[u]) : stack[u][n].pc = "autotune")
        => ~AtWrite(t)

\* C5: a call that re-queries Pending, or Miss while not responsible, runs
\* variant 0; a call that captured Pending never starts a benchmark.
C5_DefaultWhilePending ==
    \A p \in Executing :
        /\ (At(p).pc = "run" /\ At(p).requery = "Pending") => At(p).index = 0
        /\ (At(p).pc = "run" /\ At(p).requery = "Miss") =>
              (At(p).index = 0 /\ ~At(p).run_autotune)
        /\ (At(p).pc # "create" /\ At(p).fastest = Pending) =>
              (~At(p).run_autotune /\ At(p).pc \in {"harvest", "run"})

\* A call that found Pending in both exclusive sections runs the default.
C5_Witness ==
    \E p \in Executing :
        /\ At(p).pc = "run"
        /\ At(p).fastest = Pending
        /\ At(p).requery = "Pending"
        /\ \E q \in Executing : q # p /\ At(q).pc = "run" /\ At(q).requery = "Miss"

\* C6: the constructor of one constructor identity runs at most once, and all
\* init calls with that identity return the same instance.
C6_OneConstruction ==
    /\ \A ty \in Types : constructed[ty] <= 1
    /\ \A p \in Positions, q \in Positions :
          (/\ At(p).op = "init" /\ At(q).op = "init" /\ At(p).id = At(q).id
           /\ At(p).pc = "init_ret" /\ At(q).pc = "init_ret")
          => At(p).ret = At(q).ret

\* C7: a call that validates a persisted record of another checksum captures
\* Miss, becomes responsible for benchmarking and does not fail on the record
\* (it can fail only after a concurrent clear); one that validates a record
\* of the current checksum runs the persisted index.
C7_Checksum ==
    \A p \in Positions :
        /\ At(p).seenTag = "Stale" =>
              /\ At(p).fastest = Miss
              /\ At(p).run_autotune
              /\ nclear = 0 => At(p).pc \in {"start", "autotune", "harvest", "run"}
        /\ At(p).seenTag = "Match" =>
              /\ At(p).fastest = Hit(At(p).seenIdx)
              /\ At(p).pc = "hit_run"
              /\ At(p).index = At(p).seenIdx
              /\ ~At(p).run_autotune

\* A stale record made its call benchmark again.
C7_Witness ==
    \E p \in Executing :
        /\ At(p).seenTag = "Stale"
        /\ At(p).seenIdx = NumVariants
        /\ At(p).pc = "autotune"

\* C8: on a non-blocking platform without clear, the call that started the
\* benchmark runs variant 0, and a call issued once the measurement has
\* completed runs the measured winner, found as Hit when it re-queries.
C8_NonBlocking ==
    (~blocking /\ nclear = 0) =>
        \A p \in Executing :
            /\ (At(p).run_autotune /\ At(p).pc = "run") =>
                  (At(p).index = 0 /\ At(p).requery = "Pending")
            /\ At(p).seenTag = "Done" =>
                  /\ At(p).pc \in {"create", "harvest", "run", "hit_run"}
                  /\ At(p).pc \in {"run", "hit_run"} => At(p).index = At(p).seenIdx
                  /\ At(p).pc = "run" => At(p).requery = "Hit"
                  /\ ~At(p).run_autotune

\* A later call harvested the winner in its second exclusive section.
C8_Witness ==
    /\ ~blocking /\ nclear = 0
    /\ \E p \in Executing :
          /\ At(p).seenTag = "Done"
          /\ At(p).seenIdx = NumVariants - 1
          /\ At(p).pc = "run"
          /\ At(p).requery = "Hit"
          /\ At(p).fastest = Pending

\* C9: a call made from a candidate under measurement, on another identity,
\* is not stuck behind its outer call, and the outer call keeps its marker and
\* its responsibility while the inner call adds nothing under the outer identity.
C9_InnerOtherIdentity ==
    \A t \in Threads :
        \A n \in 1..(Len(stack[t]) - 1) :
            (/\ ~Dead(t)
             /\ stack[t][n].pc = "autotune"
             /\ stack[t][n + 1].op = "execute"
             /\ stack[t][n + 1].id # stack[t][n].id)
            => /\ n + 1 = Len(stack[t]) /\ AtWrite(t) => readers[t] = 0
               /\ stack[t][n].id \in DOMAIN state
               /\ stack[t][n].key \in state[stack[t][n].id].autotuning
               /\ stack[t][n].run_autotune

\* C10 (clear): a clear call leaves no Tuner and does not touch the registry
\* of Tunable Sets.
C10_ClearStep ==
    nclear' # nclear =>
        /\ state' = <<>>
        /\ sets' = sets
        /\ constructed' = constructed

\* C10 (init after clear): an init call issued after a clear with a constructor
\* identity used before returns a registered instance without constructing.
C10_InitAfterClear ==
    \A p \in Positions :
        (At(p).op = "init" /\ At(p).seenTag = "UsedCleared") =>
            /\ At(p).pc = "init_ret"
            /\ ~At(p).ranCtor
            /\ At(p).ret \in 1..constructed[At(p).id]
            /\ constructed[At(p).id] = 1 => At(p).ret = sets[At(p).id]

\* C10: clear removes every Tuner and leaves the Tunable Sets registered.
C10_Clear == [][C10_ClearStep]_vars /\ []C10_InitAfterClear

\* After a clear that dropped a Tuner in use, init returns the old instance.
C10_Witness ==
    /\ nclear = 1
    /\ state = <<>>
    /\ \E p \in Executing : At(p).pc \in {"harvest", "run"}
    /\ \E p \in Positions :
          At(p).op = "init" /\ At(p).seenTag = "UsedCleared" /\ At(p).ret = 1

\* C11: after clear, the first call that looks up a fingerprint whose winner
\* the clear discarded does not dispatch on the old winner: it is responsible
\* and benchmarks again.
C11_RebenchmarkAfterClear ==
    \A p \in Executing :
        (At(p).wasHit >= 0 /\ At(p).pc # "create") =>
            /\ At(p).run_autotune
            /\ At(p).pc \in {"start", "autotune", "harvest", "run"}

\* C12: with execute and clear running concurrently, a call that was
\* responsible for the benchmark re-queries Hit or Pending in its second
\* exclusive section, never Miss: no call ends in "Should have at least
\* started autotuning".
C12_ResponsibleNeverMiss ==
    \A p \in Positions :
        (At(p).op = "execute" /\ At(p).run_autotune /\ At(p).requery # "None") =>
            /\ At(p).requery \in {"Hit", "Pending"}
            /\ At(p).pc # "panic_started"

\* C13: while a variant or execute_autotune runs for a call (code that may
\* call execute again), the calling thread holds no guard on self.state,
\* neither shared nor exclusive.
C13_NoGuardInUserCode ==
    \A p \in Executing :
        At(p).pc \in {"fast_run", "hit_run", "run", "autotune"} =>
            (readers[p[1]] = 0 /\ writer # p[1])

\* C14: the write guard on self.state is held across bookkeeping only: no
\* thread holds it while a variant or execute_autotune runs for one of its
\* calls.
C14_WriteOnlyBookkeeping ==
    \A t \in Threads :
        writer = t =>
            \A n \in 1..Len(stack[t]) :
                stack[t][n].pc \notin {"fast_run", "hit_run", "run", "autotune"}

\* The responsible call went through both exclusive sections and
\* execute_autotune and now runs the winner; another call is in a variant too.
C14_Witness ==
    /\ writer = NoWriter
    /\ \E p \in Executing, q \in Executing :
          /\ p[1] # q[1]
          /\ At(p).pc = "run" /\ At(p).run_autotune /\ At(p).requery = "Hit"
          /\ At(q).pc = "hit_run"

\* C15: no call acts on Unchecked: a call past its first exclusive section
\* captured Hit, Miss or Pending, its re-query is never Unchecked, and neither
\* "Should have checked the cache" branch is taken.
C15_UncheckedNeverActedOn ==
    \A p \in Positions :
        At(p).op = "execute" =>
            /\ At(p).pc # "panic_unchecked"
            /\ At(p).pc # "create" => At(p).fastest.tag # "Unchecked"
            /\ At(p).requery # "Unchecked"

\* C16 (step): a call issued while its fingerprint is Hit(index) goes to the
\* fast path with that index and without becoming responsible, changes neither
\* a Tuner, the persistent cache nor the enqueued measurements and takes no
\* write guard; all a fast-path call does afterwards is return, which changes
\* none of them either.
C16_FastPathStep ==
    \A t \in Threads :
        /\ Len(stack'[t]) = Len(stack[t]) + 1 =>
              LET f == stack'[t][Len(stack'[t])]
              IN (f.op = "execute" /\ f.id \in DOMAIN state
                     /\ state[f.id].cache[f.key].tag = "Hit") =>
                    /\ f.pc = "fast_run"
                    /\ f.index = state[f.id].cache[f.key].idx
                    /\ ~f.run_autotune
                    /\ state' = state /\ persisted' = persisted /\ jobs' = jobs
                    /\ writer' = NoWriter
        /\ \A n \in 1..Len(stack[t]) :
              (stack[t][n].pc = "fast_run" /\ ~Dead(t)) =>
                  \/ n <= Len(stack'[t]) /\ stack'[t][n] = stack[t][n]
                  \/ /\ n = Len(stack[t]) /\ stack'[t] = Pop(t)[t]
                     /\ state' = state /\ persisted' = persisted /\ jobs' = jobs
                     /\ writer' = NoWriter

\* C16: the fast path on Hit(index) leaves all tuner state unchanged, takes no
\* exclusive lock, does not call execute_autotune and runs variant index.
C16_FastPath == [][C16_FastPathStep]_vars

\* A fast-path call runs the cached winner, which is not the default variant,
\* under its read guard.
C16_Witness ==
    \E p \in Executing :
        /\ At(p).pc = "fast_run"
        /\ At(p).index = NumVariants - 1
        /\ ~At(p).run_autotune
        /\ readers[p[1]] > 0
        /\ state[At(p).id].cache[At(p).key] = Hit(NumVariants - 1)

\* C17: in every interleaving of execute and clear, the Tuner of a call's
\* first exclusive section is still there when the call looks it up again
\* (lines 195-198, 214-217): no call ends in "Should be initialized".
C17_TunerStillThere ==
    \A p \in Positions : At(p).op = "execute" => At(p).pc # "panic_init"

\* C18: with clear interleaved too, at most one benchmarking pass per
\* (identity, fingerprint) is active: calls inside execute_autotune plus
\* enqueued measurements still running, those a clear orphaned included.
C18_OneBenchmarkWithClear ==
    \A id \in Ids, key \in Keys :
        Cardinality(Benchmarking(id, key))
            + Cardinality({j \in jobs : j.id = id /\ j.key = key}) <= 1

\* C19 (step): a step of an execute call for identity A leaves the Tuner of
\* every other identity as it was (its fingerprint states, its in-flight set,
\* its presence), and whether the call becomes responsible in its first
\* exclusive section depends on A's own marker only.
C19_IsolationStep ==
    \A t \in Threads :
        (Busy(t) /\ Top(t).op = "execute" /\ stack'[t] # stack[t]) =>
            /\ \A b \in Ids \ {Top(t).id} :
                  /\ (b \in DOMAIN state) <=> (b \in DOMAIN state')
                  /\ b \in DOMAIN state => state'[b] = state[b]
            /\ (Top(t).pc = "create" /\ Len(stack'[t]) <= Len(stack[t])) =>
                  LET g == stack'[t][Len(stack'[t])]
                  IN g.run_autotune =
                        /\ g.fastest.tag = "Miss"
                        /\ ~(g.id \in DOMAIN state /\ g.key \in state[g.id].autotuning)

\* C19: autotune state is isolated per identity.
C19_Isolation == [][C19_IsolationStep]_vars

\* A call became responsible for a fingerprint while the same fingerprint is
\* marked in flight under another identity.
C19_Witness ==
    \E p \in Executing, q \in Executing :
        /\ At(p).id # At(q).id /\ At(p).key = At(q).key
        /\ At(p).run_autotune /\ At(q).run_autotune
        /\ At(p).pc = "autotune"
        /\ At(q).pc = "start"
        /\ At(p).id \in DOMAIN state /\ At(p).key \in state[At(p).id].autotuning
        /\ At(q).id \in DOMAIN state /\ At(q).key \in state[At(q).id].autotuning

\* C20 (as claimed): the index a call dispatches to, a cached winner or the
\* default 0, is a valid index into the Tunable Set, whatever the set: with
\* variants or with none, with or without a record persisted for another
\* variant list.
C20_IndexInRange ==
    \A p \in Executing :
        At(p).pc \in {"fast_run", "hit_run", "run"} => At(p).index \in 0..(len - 1)

\* C20: for a Tunable Set with at least one variant, the index a call
\* dispatches to is a valid index into the set, also when a record persisted
\* for another variant list held an index that is not.
C20_IndexInRangeNonEmpty ==
    len > 0 =>
        \A p \in Executing :
            At(p).pc \in {"fast_run", "hit_run", "run"} => At(p).index \in 0..(len - 1)

\* A call found a record persisted for a longer variant list, discarded its
\* index and dispatches the winner it measured instead.
C20_Witness ==
    /\ len > 0
    /\ \E p \in Executing :
          /\ At(p).seenTag = "Stale"
          /\ At(p).seenIdx >= len
          /\ At(p).pc = "run"
          /\ At(p).requery = "Hit"
          /\ At(p).index = len - 1

TypeOK ==
    /\ DOMAIN state \subseteq Ids
    /\ readers \in [Threads -> 0..MaxDepth]
    /\ sets \in [Types -> 0..MaxCtor]
    /\ blocking \in BOOLEAN
    /\ nclear \in 0..MaxClear
    /\ writer \in {NoWriter} \cup Threads
    /\ len \in 0..NumVariants
    /\ lastHits \subseteq Ids \X Keys \X (0..NumVariants)

====
